---- MODULE Spec2Model ----
(***************************************************************************)
(* A model of demapples: the DisjointSetUnion structure (dsu.py) and the   *)
(* A* search find_path (path.py).                                          *)
(***************************************************************************)
EXTENDS Integers, Sequences, FiniteSets, Bags, TLC

VARIABLES
    \* DisjointSetUnion
    parent,     \* self.parent
    rank,       \* self.rank
    size,       \* self.size
    call,       \* the last DisjointSetUnion call: its name, arguments and outcome
    pre,        \* parent, rank and size as they were when that call started
    conn,       \* history: the closure of the union calls made so far
    \* find_path: its arguments
    start,      \* start
    goal,       \* end
    nbrs,       \* get_neighbours, as far as the call has asked: node -> list
    dist,       \* dist, as far as the call has asked: <<a, b>> -> cost
    heur,       \* heuristic, as far as the call has asked: node -> estimate
    \* find_path: its locals
    open_set,
    open_heap,  \* the bag of (priority, node) entries in the heap
    g_score,
    f_score,
    came_from,
    current,
    todo,       \* what the for loop over get_neighbours(current) has left
    pc,         \* "idle", "loop" (at the while test), "for", "done"
    outcome     \* how the call ended, and what it returned

dsuVars == <<parent, rank, size, call, pre, conn>>
argVars == <<start, goal, nbrs, dist, heur>>
pathVars == <<start, goal, nbrs, dist, heur, open_set, open_heap, g_score,
              f_score, came_from, current, todo, pc, outcome>>
vars == <<parent, rank, size, call, pre, conn, start, goal, nbrs, dist, heur,
          open_set, open_heap, g_score, f_score, came_from, current, todo, pc,
          outcome>>

----------------------------------------------------------------------------
(* DisjointSetUnion                                                        *)

\* The size given to DisjointSetUnion(size).
DsuSize == 4

Elems == 0 .. (DsuSize - 1)

\* The integers a caller may pass: every valid index and the ends of the
\* ranges Python's list indexing treats differently (-DsuSize .. -1 wrap
\* around, anything further out raises IndexError).
AnyIndex == Elems \cup {0 - DsuSize - 1, 0 - DsuSize, 0 - 1, DsuSize}

\* Python's list subscript on a list of length DsuSize: the position that
\* lst[u] denotes, or <<>> when lst[u] raises IndexError.
ListPos(u) ==
    IF u >= 0 /\ u < DsuSize THEN <<u>>
    ELSE IF u < 0 /\ u >= 0 - DsuSize THEN <<u + DsuSize>>
    ELSE <<>>

\* find(u) on parent list p: [p |-> the parent list afterwards, ok |-> FALSE
\* when an IndexError was raised, ret |-> the value returned].
RECURSIVE find(_, _)
findNoCompress(p, u) ==
    LET pos == ListPos(u) IN
    IF pos = <<>> THEN [p |-> p, ok |-> FALSE, ret |-> u]
    ELSE IF p[pos[1]] # u
         THEN LET r == find(p, p[pos[1]]) IN
              [p |-> r.p, ok |-> r.ok, ret |-> r.ret]
         ELSE [p |-> p, ok |-> TRUE, ret |-> p[pos[1]]]
find(p, u) ==
    LET pos == ListPos(u) IN
    IF pos = <<>> THEN [p |-> p, ok |-> FALSE, ret |-> u]
    ELSE IF p[pos[1]] # u
         THEN LET r == find(p, p[pos[1]]) IN
              IF r.ok
              THEN [p |-> [r.p EXCEPT ![pos[1]] = r.ret], ok |-> TRUE, ret |-> r.ret]
              ELSE r
         ELSE [p |-> p, ok |-> TRUE, ret |-> p[pos[1]]]

Snapshot == [parent |-> parent, rank |-> rank, size |-> size]

\* The reflexive-symmetric-transitive closure of R with the pair {u, v} added,
\* R being such a closure already: the classes of u and v become one class.
Closure(R, u, v) ==
    LET cls == {w \in Elems : <<u, w>> \in R \/ <<v, w>> \in R}
    IN R \cup (cls \X cls)

\* __init__
DsuInit ==
    /\ parent = [i \in Elems |-> i]
    /\ rank = [i \in Elems |-> 1]
    /\ size = [i \in Elems |-> 1]
    /\ call = [op |-> "new", u |-> 0, v |-> 0, out |-> "ok", ret |-> <<>>]
    /\ pre = [parent |-> [i \in Elems |-> i], rank |-> [i \in Elems |-> 1],
              size |-> [i \in Elems |-> 1]]
    /\ conn = {<<i, i>> : i \in Elems}

\* dsu.find(u)
Find(u) ==
    \E r \in {find(parent, u)} :
    /\ parent' = r.p
    /\ call' = [op |-> "find", u |-> u, v |-> u,
                out |-> IF r.ok THEN "ok" ELSE "IndexError",
                ret |-> IF r.ok THEN <<r.ret>> ELSE <<>>]
    /\ pre' = Snapshot
    /\ UNCHANGED <<rank, size, conn>>

\* The three branches of union once both roots are known and differ.
UnionRootsDropLowRank(p, rk, sz, ru, rv) ==
    IF rk[ru] > rk[rv]
    THEN [parent |-> [p EXCEPT ![rv] = ru], rank |-> rk,
          size |-> [sz EXCEPT ![ru] = sz[ru] + sz[rv]]]
    ELSE IF rk[ru] < rk[rv]
    THEN [parent |-> p, rank |-> rk,
          size |-> [sz EXCEPT ![rv] = sz[rv] + sz[ru]]]
    ELSE [parent |-> [p EXCEPT ![rv] = ru],
          rank |-> [rk EXCEPT ![ru] = rk[ru] + 1],
          size |-> [sz EXCEPT ![ru] = sz[ru] + sz[rv]]]
UnionRootsNoSize(p, rk, sz, ru, rv) ==
    IF rk[ru] > rk[rv]
    THEN [parent |-> [p EXCEPT ![rv] = ru], rank |-> rk, size |-> sz]
    ELSE IF rk[ru] < rk[rv]
    THEN [parent |-> [p EXCEPT ![ru] = rv], rank |-> rk, size |-> sz]
    ELSE [parent |-> [p EXCEPT ![rv] = ru],
          rank |-> [rk EXCEPT ![ru] = rk[ru] + 1],
          size |-> [sz EXCEPT ![ru] = sz[ru] + sz[rv]]]
UnionRootsTieToV(p, rk, sz, ru, rv) ==
    IF rk[ru] > rk[rv]
    THEN [parent |-> [p EXCEPT ![rv] = ru], rank |-> rk,
          size |-> [sz EXCEPT ![ru] = sz[ru] + sz[rv]]]
    ELSE IF rk[ru] < rk[rv]
    THEN [parent |-> [p EXCEPT ![ru] = rv], rank |-> rk,
          size |-> [sz EXCEPT ![rv] = sz[rv] + sz[ru]]]
    ELSE [parent |-> [p EXCEPT ![ru] = rv],
          rank |-> [rk EXCEPT ![rv] = rk[rv] + 1],
          size |-> [sz EXCEPT ![rv] = sz[rv] + sz[ru]]]
UnionRoots(p, rk, sz, ru, rv) ==
    IF rk[ru] > rk[rv]
    THEN [parent |-> [p EXCEPT ![rv] = ru], rank |-> rk,
          size |-> [sz EXCEPT ![ru] = sz[ru] + sz[rv]]]
    ELSE IF rk[ru] < rk[rv]
    THEN [parent |-> [p EXCEPT ![ru] = rv], rank |-> rk,
          size |-> [sz EXCEPT ![rv] = sz[rv] + sz[ru]]]
    ELSE [parent |-> [p EXCEPT ![rv] = ru],
          rank |-> [rk EXCEPT ![ru] = rk[ru] + 1],
          size |-> [sz EXCEPT ![ru] = sz[ru] + sz[rv]]]

\* dsu.union(u, v)
UnionNoFind(u, v) ==
    \* links u and v themselves, not their roots
    \E n \in {IF ListPos(u) # <<>> /\ ListPos(v) # <<>> /\ u # v
               THEN UnionRoots(parent, rank, size, u, v)
               ELSE [parent |-> parent, rank |-> rank, size |-> size]} :
    LET ok == ListPos(u) # <<>> /\ ListPos(v) # <<>> IN
    /\ parent' = n.parent
    /\ rank' = n.rank
    /\ size' = n.size
    /\ call' = [op |-> "union", u |-> u, v |-> v,
                out |-> IF ok THEN "ok" ELSE "IndexError", ret |-> <<>>]
    /\ pre' = Snapshot
    /\ conn' = IF u \in Elems /\ v \in Elems
               THEN Closure(conn, u, v)
               ELSE conn
Union(u, v) ==
    \* root_u = self.find(u); root_v = self.find(v), which is not reached
    \* when find(u) raises
    \E a \in {find(parent, u)} :
    \E b \in {IF a.ok THEN find(a.p, v) ELSE a} :
    \E n \in {IF b.ok /\ a.ret # b.ret
               THEN UnionRoots(b.p, rank, size, a.ret, b.ret)
               ELSE [parent |-> b.p, rank |-> rank, size |-> size]} :
    LET ok == b.ok IN
    /\ parent' = n.parent
    /\ rank' = n.rank
    /\ size' = n.size
    /\ call' = [op |-> "union", u |-> u, v |-> v,
                out |-> IF ok THEN "ok" ELSE "IndexError", ret |-> <<>>]
    /\ pre' = Snapshot
    /\ conn' = IF u \in Elems /\ v \in Elems
               THEN Closure(conn, u, v)
               ELSE conn

\* dsu.get_size(u)
GetSize(u) ==
    \E r \in {find(parent, u)} :
    /\ parent' = r.p
    /\ call' = [op |-> "get_size", u |-> u, v |-> u,
                out |-> IF r.ok THEN "ok" ELSE "IndexError",
                ret |-> IF r.ok THEN <<size[r.ret]>> ELSE <<>>]
    /\ pre' = Snapshot
    /\ UNCHANGED <<rank, size, conn>>

----------------------------------------------------------------------------
(* find_path                                                               *)
(*                                                                         *)
(* dist, get_neighbours and heuristic are the caller's functions. The call *)
(* sees of them only the answers it asks for, so an answer is drawn when   *)
(* it is first asked for and kept (nbrs, dist, heur): asked again, the     *)
(* function answers the same.                                              *)

\* The nodes of the doctest, in Python's string order ('A' < ... < 'e').
NodeOrder == <<"A", "B", "C", "D", "e">>
Node == {NodeOrder[i] : i \in DOMAIN NodeOrder}
Ord(n) == CHOOSE i \in DOMAIN NodeOrder : NodeOrder[i] = n

\* Edge costs are 0 .. MaxCost and heuristic values 0 .. MaxH.
MaxCost == 1
MaxH == 1

\* get_neighbours(n) answers with a sublist of Around[n]: the doctest's
\* lists, and besides them C -> B (a node can be reached a second time through
\* a node that was pushed after it), e -> e (a self-loop) and e -> C (a cycle).
Around == [n \in Node |->
    CASE n = "A" -> <<"B", "C">>
      [] n = "B" -> <<"D">>
      [] n = "C" -> <<"B", "D">>
      [] n = "D" -> <<"e">>
      [] OTHER -> <<"e", "C">>]

RECURSIVE SubLists(_)
SubLists(l) ==
    IF l = <<>> THEN {<<>>}
    ELSE LET rest == SubLists(Tail(l)) IN
         rest \cup {<<Head(l)>> \o r : r \in rest}

\* Python's order on the heap's (priority, node) tuples.
TupleLE(a, b) == a[1] < b[1] \/ (a[1] = b[1] /\ Ord(a[2]) <= Ord(b[2]))

\* The entry heapq.heappop returns: the least of the heap.
HeapMin(h) ==
    CHOOSE e \in BagToSet(h) : \A x \in BagToSet(h) : TupleLE(e, x)

\* _reconstruct_path
RECURSIVE ReconstructPath(_, _)
ReconstructPathNoStart(cf, cur) ==
    IF cur \in DOMAIN cf
    THEN IF cf[cur] \in DOMAIN cf
         THEN Append(ReconstructPath(cf, cf[cur]), cur)
         ELSE <<cur>>
    ELSE <<>>
ReconstructPath(cf, cur) ==
    IF cur \in DOMAIN cf
    THEN Append(ReconstructPath(cf, cf[cur]), cur)
    ELSE <<cur>>

\* The test `current == end`.
GoalReachedAfterMove(cur, end, cf) == cur = end /\ cf # <<>>
GoalReached(cur, end, cf) == cur = end

\* The test `neighbor not in g_score or tentative_g < g_score[neighbor]`.
BetterOrEqual(gs, neighbor, tentative_g) ==
    neighbor \notin DOMAIN gs \/ tentative_g <= gs[neighbor]
Better(gs, neighbor, tentative_g) ==
    neighbor \notin DOMAIN gs \/ tentative_g < gs[neighbor]

Running == [kind |-> "running", cost |-> 0, path |-> <<>>]

\* No find_path call is under way.
PathIdle ==
    /\ start = "A" /\ goal = "A"
    /\ nbrs = <<>> /\ dist = <<>> /\ heur = <<>>
    /\ open_set = {} /\ open_heap = EmptyBag
    /\ g_score = <<>> /\ f_score = <<>> /\ came_from = <<>>
    /\ current = "None" /\ todo = <<>>
    /\ pc = "idle"
    /\ outcome = Running

\* find_path(start, end, ...) up to the while loop.
PathInit ==
    /\ start \in Node /\ goal \in Node
    /\ nbrs = <<>> /\ dist = <<>>
    /\ \E h \in 0 .. MaxH :
          /\ heur = (start :> h)
          /\ f_score = (start :> h)
          /\ open_heap = SetToBag({<<h, start>>})
    /\ open_set = {start}
    /\ g_score = (start :> 0)
    /\ came_from = <<>>
    /\ current = "None" /\ todo = <<>>
    /\ pc = "loop"
    /\ outcome = Running

\* One pass of the while loop up to the for loop: heappop, open_set.remove,
\* the test for the goal, and the call of get_neighbours.
Pop ==
    /\ pc = "loop"
    /\ open_set # {}
    /\ IF open_heap = EmptyBag
       THEN /\ outcome' = [kind |-> "IndexError", cost |-> 0, path |-> <<>>]
            /\ pc' = "done"
            /\ UNCHANGED <<open_heap, open_set, current, todo, nbrs>>
       ELSE LET e == HeapMin(open_heap)
                cur == e[2]
            IN
            /\ open_heap' = open_heap (-) SetToBag({e})
            /\ current' = cur
            /\ IF cur \notin open_set
               THEN /\ outcome' = [kind |-> "KeyError", cost |-> 0, path |-> <<>>]
                    /\ pc' = "done"
                    /\ UNCHANGED <<open_set, todo, nbrs>>
               ELSE /\ open_set' = open_set \ {cur}
                    /\ IF GoalReached(cur, goal, came_from)
                       THEN /\ outcome' = [kind |-> "returned",
                                           cost |-> g_score[cur],
                                           path |-> ReconstructPath(came_from, cur)]
                            /\ pc' = "done"
                            /\ UNCHANGED <<todo, nbrs>>
                       ELSE /\ \E l \in (IF cur \in DOMAIN nbrs THEN {nbrs[cur]}
                                         ELSE SubLists(Around[cur])) :
                                  /\ nbrs' = (cur :> l) @@ nbrs
                                  /\ todo' = l
                                  /\ pc' = IF l = <<>> THEN "loop" ELSE "for"
                            /\ UNCHANGED outcome
    /\ UNCHANGED <<start, goal, dist, heur, g_score, f_score, came_from>>
    /\ UNCHANGED dsuVars

\* One pass of the for loop: the relaxation of the edge current -> neighbor.
Relax ==
    /\ pc = "for"
    /\ LET neighbor == Head(todo) IN
       \E d \in (IF <<current, neighbor>> \in DOMAIN dist
                 THEN {dist[<<current, neighbor>>]} ELSE 0 .. MaxCost) :
          LET tentative_g == g_score[current] + d IN
          /\ dist' = (<<current, neighbor>> :> d) @@ dist
          /\ IF Better(g_score, neighbor, tentative_g)
             THEN \E h \in (IF neighbor \in DOMAIN heur THEN {heur[neighbor]}
                            ELSE 0 .. MaxH) :
                     /\ heur' = (neighbor :> h) @@ heur
                     /\ g_score' = (neighbor :> tentative_g) @@ g_score
                     /\ f_score' = (neighbor :> (tentative_g + h)) @@ f_score
                     /\ open_heap' = open_heap (+) SetToBag({<<tentative_g + h, neighbor>>})
                     /\ came_from' = (neighbor :> current) @@ came_from
                     /\ open_set' = open_set \cup {neighbor}
             ELSE UNCHANGED <<heur, g_score, f_score, open_heap, came_from, open_set>>
    /\ todo' = Tail(todo)
    /\ pc' = IF Tail(todo) = <<>> THEN "loop" ELSE "for"
    /\ UNCHANGED <<start, goal, nbrs, current, outcome>>
    /\ UNCHANGED dsuVars

\* The while loop ends: raise AssertionError("No path").
NoPath ==
    /\ pc = "loop"
    /\ open_set = {}
    /\ outcome' = [kind |-> "NoPath", cost |-> 0, path |-> <<>>]
    /\ pc' = "done"
    /\ UNCHANGED <<start, goal, nbrs, dist, heur, open_set, open_heap, g_score,
                   f_score, came_from, current, todo>>
    /\ UNCHANGED dsuVars

PathNext == Pop \/ Relax \/ NoPath

PathSpecInit == DsuInit /\ PathInit

PathSpec == PathSpecInit /\ [][PathNext]_vars

----------------------------------------------------------------------------
Init == DsuInit /\ PathIdle

\* Calls on valid indices only.
Next ==
    \/ \E u \in Elems : Find(u) /\ UNCHANGED pathVars
    \/ \E u \in Elems, v \in Elems : Union(u, v) /\ UNCHANGED pathVars
    \/ \E u \in Elems : GetSize(u) /\ UNCHANGED pathVars

Spec == Init /\ [][Next]_vars

\* Calls on any integer index.
NextAnyIndex ==
    \/ \E u \in AnyIndex : Find(u) /\ UNCHANGED pathVars
    \/ \E u \in AnyIndex, v \in AnyIndex : Union(u, v) /\ UNCHANGED pathVars
    \/ \E u \in AnyIndex : GetSize(u) /\ UNCHANGED pathVars

SpecAnyIndex == Init /\ [][NextAnyIndex]_vars

----------------------------------------------------------------------------
(* Properties of DisjointSetUnion                                          *)

\* What find(u) returns in the current state.
Root(u) == find(parent, u).ret
\* What find(u) returned when the last call started.
PreRoot(u) == find(pre.parent, u).ret

\* C1: after any sequence of union, find and get_size calls on valid indices,
\* find(u) == find(v) exactly when u and v are connected by the
\* reflexive-symmetric-transitive closure of the union calls made so far.
C1_FindIffConnected ==
    \A u \in Elems, v \in Elems : (Root(u) = Root(v)) <=> (<<u, v>> \in conn)

\* Two elements that no union call named together are connected through a
\* third, and a union has just been made.
C1_Witness ==
    /\ call.op = "union"
    /\ \E u \in Elems, v \in Elems, w \in Elems :
          /\ Cardinality({u, v, w}) = 3
          /\ {u, v} # {call.u, call.v}
          /\ <<u, v>> \in conn /\ <<v, w>> \in conn
          /\ Root(u) = Root(w)
    /\ \E u \in Elems : <<call.u, u>> \notin conn

\* C2: get_size(u) is the number of elements w with find(w) == find(u), in
\* every state and as the value every get_size call returns.
C2_SizeCountsSet ==
    /\ \A u \in Elems :
          size[Root(u)] = Cardinality({w \in Elems : Root(w) = Root(u)})
    /\ (call.op = "get_size" /\ call.u \in Elems) =>
          call.ret = <<Cardinality({w \in Elems : PreRoot(w) = PreRoot(call.u)})>>

\* get_size has just returned 3 for an element that is not the root.
C2_Witness ==
    /\ call.op = "get_size"
    /\ call.ret = <<3>>
    /\ Root(call.u) # call.u

\* The last call was a union of two different sets with roots of equal rank.
TiedUnion ==
    /\ call.op = "union"
    /\ call.out = "ok"
    /\ PreRoot(call.u) # PreRoot(call.v)
    /\ pre.rank[PreRoot(call.u)] = pre.rank[PreRoot(call.v)]

\* C3: after union(u, v) of two different sets whose roots have equal rank,
\* find(u) and find(v) are both the pre-union find(u), that root's rank is one
\* more than before, and no other rank has changed.
C3_TieKeepsRootOfU ==
    TiedUnion =>
        LET ru == PreRoot(call.u) IN
        /\ Root(call.u) = ru
        /\ Root(call.v) = ru
        /\ rank[ru] = pre.rank[ru] + 1
        /\ \A w \in Elems \ {ru} : rank[w] = pre.rank[w]

\* A tied union of two sets of two elements each, neither argument a root.
C3_Witness ==
    /\ TiedUnion
    /\ pre.rank[PreRoot(call.u)] = 2
    /\ PreRoot(call.u) # call.u
    /\ PreRoot(call.v) # call.v

\* C4: every find, union and get_size call that receives an index outside
\* [0, size) fails with an index-out-of-bounds error and returns no value.
C4_OutOfRangeFails ==
    (call.op \in {"find", "union", "get_size"}
        /\ (call.u \notin Elems \/ call.v \notin Elems))
    => call.out = "IndexError"

\* The elements on the walk along p's links from u to the root of its tree.
RECURSIVE Walk(_, _)
Walk(p, u) == IF p[u] = u THEN {u} ELSE {u} \cup Walk(p, p[u])

\* The roots of p, and the partition p stands for (who shares a root).
Roots(p) == {w \in Elems : p[w] = w}
SameSet(p) ==
    {e \in Elems \X Elems :
        \E r \in Roots(p) : r \in Walk(p, e[1]) /\ r \in Walk(p, e[2])}

\* C11: find(u) on a valid index returns the root of u's set; of parent it
\* changes only the entries of the nodes on the walk from u to that root,
\* each of which then points at the root; rank, size, the set of roots and
\* the partition stay as they were.
C11_FindOnlyCompresses ==
    (call.op = "find" /\ call.u \in Elems) =>
        LET walk == Walk(pre.parent, call.u)
            root == CHOOSE r \in walk : pre.parent[r] = r
        IN
        /\ call.out = "ok"
        /\ call.ret = <<root>>
        /\ \A w \in walk : parent[w] = root
        /\ \A w \in Elems \ walk : parent[w] = pre.parent[w]
        /\ rank = pre.rank
        /\ size = pre.size
        /\ Roots(parent) = Roots(pre.parent)
        /\ SameSet(parent) = SameSet(pre.parent)

\* find(u) has just rebound u, which was two links away from its root.
C11_Witness ==
    /\ call.op = "find"
    /\ call.u \in Elems
    /\ pre.parent[call.u] # call.u
    /\ pre.parent[pre.parent[call.u]] # pre.parent[call.u]
    /\ parent[call.u] # pre.parent[call.u]
    /\ call.ret = <<parent[call.u]>>


\* Where k steps along p's links lead from u.
RECURSIVE Follow(_, _, _)
Follow(p, u, k) == IF k = 0 THEN u ELSE Follow(p, p[u], k - 1)

\* C12: in every state reached by union, find and get_size calls on valid
\* indices the parent relation is a forest: from any element the parent links
\* lead in at most DsuSize - 1 steps to an element that is its own parent, so
\* no cycle is longer than one and the recursive find ends there.
C12_ParentIsForest ==
    /\ \A u \in Elems :
          LET r == Follow(parent, u, DsuSize - 1) IN
          r \in Elems /\ parent[r] = r
    /\ \A u \in Elems : Root(u) = Follow(parent, u, DsuSize - 1)

\* Some element is two links away from its root, after a union.
C12_Witness ==
    /\ call.op = "union"
    /\ \E u \in Elems :
          /\ parent[u] # u
          /\ parent[parent[u]] # parent[u]
          /\ parent[parent[parent[u]]] = parent[parent[u]]


----------------------------------------------------------------------------
(* Properties of find_path                                                 *)

\* The graph as the call has seen it. A node get_neighbours was never asked
\* about contributes no edge: the call runs the same for every list it would
\* have answered, the empty list among them.
Edges ==
    {e \in Node \X Node :
        /\ e[1] \in DOMAIN nbrs
        /\ \E i \in DOMAIN nbrs[e[1]] : nbrs[e[1]][i] = e[2]
        /\ e \in DOMAIN dist}

\* More than any path without a repeated node can cost.
Inf == Cardinality(Node) * MaxCost + 1

MinOf(S) == CHOOSE x \in S : \A y \in S : x <= y

\* Exhaustive search: the least cost of a path from each node to the goal
\* that has at most k edges (Inf when there is none).
RECURSIVE CostToGoal(_)
CostToGoal(k) ==
    IF k = 0 THEN [n \in Node |-> IF n = goal THEN 0 ELSE Inf]
    ELSE LET D == CostToGoal(k - 1) IN
         [n \in Node |->
            MinOf({D[n]} \cup {dist[e] + D[e[2]] :
                                 e \in {x \in Edges : x[1] = n /\ D[x[2]] < Inf}})]

TrueCost == CostToGoal(Cardinality(Node))

GoalReachable == TrueCost[start] < Inf

\* The heuristic never overestimates the remaining cost.
Admissible == \A n \in DOMAIN heur : TrueCost[n] < Inf => heur[n] <= TrueCost[n]

\* The heuristic satisfies the triangle inequality along every edge.
Consistent ==
    \A e \in Edges :
        (e[1] \in DOMAIN heur /\ e[2] \in DOMAIN heur)
            => heur[e[1]] <= dist[e] + heur[e[2]]

RECURSIVE SumDist(_)
SumDist(p) ==
    IF Len(p) <= 1 THEN 0 ELSE dist[<<p[1], p[2]>>] + SumDist(Tail(p))

\* C5: with non-negative costs, an admissible and consistent heuristic and a
\* goal reachable from start, find_path returns a result whose cost is the
\* least total edge cost over all paths from start to goal.
C5_ReturnsMinimumCost ==
    (pc = "done" /\ GoalReachable /\ Admissible /\ Consistent)
    => (outcome.kind = "returned" /\ outcome.cost = TrueCost[start])

\* C6: whenever find_path returns (cost, path), for any heuristic, the path
\* starts at start, ends at goal, each consecutive pair (a, b) has b in
\* neighbours(a), and dist summed over the consecutive pairs is the cost.
C6_ReturnedPathValid ==
    outcome.kind = "returned" =>
        LET p == outcome.path IN
        /\ Len(p) >= 1
        /\ p[1] = start
        /\ p[Len(p)] = goal
        /\ \A i \in 1 .. (Len(p) - 1) : <<p[i], p[i + 1]>> \in Edges
        /\ SumDist(p) = outcome.cost

\* A path is returned on which B was first reached from A and then, more
\* cheaply, from C.
C6_Witness ==
    /\ outcome.kind = "returned"
    /\ outcome.path = <<"A", "C", "B", "D">>
    /\ <<"A", "B">> \in DOMAIN dist
    /\ dist[<<"A", "B">>] > dist[<<"A", "C">>] + dist[<<"C", "B">>]

\* C7: when no sequence of neighbour steps leads from start to goal, find_path
\* ends with the 'No path' AssertionError and with no other outcome.
C7_UnreachableRaisesNoPath ==
    (pc = "done" /\ ~GoalReachable) => outcome.kind = "NoPath"

\* The entry the next pop takes is stale: its node was pushed again with a
\* cheaper g_score after it, and has been popped through that cheaper entry.
StaleTop ==
    /\ pc = "loop"
    /\ open_set # {}
    /\ open_heap # EmptyBag
    /\ LET e == HeapMin(open_heap) IN
       /\ e[1] > g_score[e[2]] + heur[e[2]]
       /\ <<g_score[e[2]] + heur[e[2]], e[2]>> \notin BagToSet(open_heap)

\* C8: the pop of a stale entry discards it and the search goes on with the
\* next pop: the pop raises no error and leaves g_score and came_from as
\* they are.
C8_StalePopDiscarded ==
    [][StaleTop =>
          /\ outcome' = outcome
          /\ pc' = "loop"
          /\ g_score' = g_score
          /\ came_from' = came_from]_vars

\* C9: find_path(X, X, ...) returns cost 0 and the path [X] on the first pop,
\* without asking for any neighbour or any distance.
C9_StartIsGoal ==
    start = goal =>
        \/ pc = "loop" /\ outcome = Running /\ g_score = (start :> 0)
        \/ /\ pc = "done"
           /\ outcome = [kind |-> "returned", cost |-> 0, path |-> <<start>>]
           /\ nbrs = <<>>
           /\ dist = <<>>
           /\ DOMAIN heur = {start}
           /\ open_heap = EmptyBag

\* find_path(e, e, ...) has ended, e being the node that would have answered
\* with a self-loop, and this with the largest heuristic value.
C9_Witness ==
    /\ start = "e" /\ goal = "e"
    /\ pc = "done"
    /\ heur["e"] = MaxH
    /\ "e" \in {Around["e"][i] : i \in DOMAIN Around["e"]}

\* The graph of the doctest: unit costs and a zero heuristic.
DoctestNeighbours == [n \in Node |->
    CASE n = "A" -> <<"B", "C">>
      [] n = "B" -> <<"D">>
      [] n = "C" -> <<"D">>
      [] n = "D" -> <<"e">>
      [] OTHER -> <<>>]

IsDoctest ==
    /\ start = "A" /\ goal = "e"
    /\ \A n \in DOMAIN nbrs : nbrs[n] = DoctestNeighbours[n]
    /\ \A e \in DOMAIN dist : dist[e] = 1
    /\ \A n \in DOMAIN heur : heur[n] = 0

\* C10: a relaxation whose tentative_g is greater than or equal to the
\* g_score the neighbour already has changes neither g_score nor came_from
\* nor the frontier; no g_score ever increases; and the doctest's call, where
\* D is reached at equal cost from B and then from C, returns
\* (3, [A, B, D, e]).
C10_OnlyStrictlyBetter ==
    /\ [][pc = "for" =>
            LET neighbor == Head(todo)
                tentative_g == g_score[current] + dist'[<<current, neighbor>>]
            IN (neighbor \in DOMAIN g_score /\ tentative_g >= g_score[neighbor])
               => UNCHANGED <<g_score, came_from, f_score, open_heap, open_set>>]_vars
    /\ [][\A n \in DOMAIN g_score :
            n \in DOMAIN g_score' /\ g_score'[n] <= g_score[n]]_vars
    /\ []((IsDoctest /\ pc = "done") =>
            outcome = [kind |-> "returned", cost |-> 3,
                       path |-> <<"A", "B", "D", "e">>])

\* The doctest's call has ended, having relaxed C -> D after B -> D.
C10_Witness ==
    /\ IsDoctest
    /\ pc = "done"
    /\ DOMAIN nbrs = {"A", "B", "C", "D"}
    /\ came_from["D"] = "B"
    /\ g_score["D"] = g_score["C"] + dist[<<"C", "D">>]

====
